---- MODULE Spec2Model ----
(***************************************************************************)
(* A model of src/muport.js: the MuPort identity class, its recovery       *)
(* network and the publish / anchor protocol around updateDelegates.       *)
(*                                                                         *)
(* The module-wide transport handle `ipfs`, the registered resolver, the   *)
(* content network, the ledger, the JavaScript heap of document objects    *)
(* and the MuPort instances are the state.  Every async function is cut    *)
(* at its awaits: a call in flight is a record of `calls` with its         *)
(* position `pc` and its locals.                                           *)
(***************************************************************************)
EXTENDS Integers, Sequences, FiniteSets, TLC

(* ------------------------------------------------------------------ *)
(* Bounds of the model                                                  *)
(* ------------------------------------------------------------------ *)
MaxCalls == 2        \* newIdentity + updateDelegates invocations in one run
MaxObjs == 3         \* MuPort instances constructed in one run
MaxShares == 3       \* length of the share list handed to recoverIdentity
NumDelegates == 6    \* delegate identities that exist before the run: two full lists

(* ------------------------------------------------------------------ *)
(* Program constants                                                    *)
(* ------------------------------------------------------------------ *)
Amount == 3          \* 'Must provide exactly 3 DIDs'
DocVersion == 1      \* createMuportDocument: version: 1
Threshold == 2       \* shares needed to rebuild the keyring (2-of-3)

IPFS_CONF == "ipfs.infura.io"
Confs == {"undefined", "local.node"}   \* values of opts.ipfsConf
Names == {"Alice"}

(* ------------------------------------------------------------------ *)
(* JavaScript values                                                    *)
(* ------------------------------------------------------------------ *)
\* A value that may be undefined: <<>> is undefined, <<v>> is v.
Undefined == <<>>
Some(v) == <<v>>
IsDefined(o) == Len(o) > 0
\* o.f on an object: a missing property reads as undefined.
Get(o, f) == IF f \in DOMAIN o THEN o[f] ELSE Undefined
\* o.f = v
Put(o, f, v) == [g \in (DOMAIN o) \cup {f} |-> IF g = f THEN v ELSE o[g]]
EmptyObject == [f \in {} |-> Undefined]
\* JSON.stringify drops the properties whose value is undefined.
JSONObject(o) == [f \in {g \in DOMAIN o : IsDefined(o[g])} |-> o[f]]

Range(s) == {s[i] : i \in DOMAIN s}

(* ------------------------------------------------------------------ *)
(* Identifiers                                                          *)
(* ------------------------------------------------------------------ *)
\* 'did:muport:' + docHash
MakeDid(docHash) == <<"did", "muport", docHash>>
\* did.split(':')[2]
DidHash(did) == did[3]
didToBuffer(didUri) == [bs58 |-> DidHash(didUri)]
bufferToDid(didBuffer) == MakeDid(didBuffer.bs58)

(* ------------------------------------------------------------------ *)
(* Keyring (./keyring)                                                  *)
(* ------------------------------------------------------------------ *)
NewKeyring(seed) == [seed |-> seed]
KeyringSerialize(keyring) == [mnemonic |-> keyring.seed]
KeyringRestore(ser) == [seed |-> ser.mnemonic]
getPublicKeys(keyring) ==
    [signingKey |-> <<"signingKey", keyring.seed>>,
     managementKey |-> <<"managementKey", keyring.seed>>,
     asymEncryptionKey |-> <<"encryptionKey", keyring.seed>>]
getManagementAddress(keyring) == <<"address", keyring.seed>>
\* the address the ledger derives from a published management key
AddressOfKey(managementKey) == <<"address", managementKey[2]>>

symEncrypt(keyring, msg, n) ==
    [ciphertext |-> [key |-> keyring.seed, plain |-> msg], nonce |-> n]
symDecryptOk(keyring, ciphertext, nonce) == ciphertext.key = keyring.seed
symDecrypt(keyring, ciphertext, nonce) == ciphertext.plain

\* One share of `keyring`'s secret from split number `split`.
Share(keyring, split, idx) == [secret |-> keyring.seed, split |-> split, idx |-> idx]
\* A keyring that shares among however many delegates it is given.
createSharesAnyCount(dids, publicKeys) == Len(dids) = Len(publicKeys)

\* Without exactly 3 dids and keys no network is made.
createSharesOk(dids, publicKeys) == Len(dids) = Amount /\ Len(publicKeys) = Amount
createShares(keyring, dids, publicKeys, split) ==
    [i \in 1..Len(dids) |->
        [delegateId |-> dids[i],
         encryptedShare |-> [to |-> publicKeys[i], share |-> Share(keyring, split, i)]]]

\* The entries of a network that are addressed to `did` and open with this keyring.
SharesFor(keyring, recoveryNetwork, did) ==
    {i \in DOMAIN recoveryNetwork :
        /\ recoveryNetwork[i].delegateId = did
        /\ recoveryNetwork[i].encryptedShare.to = getPublicKeys(keyring).asymEncryptionKey}
decryptOneShareOk(keyring, recoveryNetwork, did) ==
    /\ IsDefined(recoveryNetwork)
    /\ SharesFor(keyring, recoveryNetwork[1], did) # {}
decryptOneShare(keyring, recoveryNetwork, did) ==
    LET i == CHOOSE j \in SharesFor(keyring, recoveryNetwork[1], did) :
                 \A k \in SharesFor(keyring, recoveryNetwork[1], did) : j <= k
    IN  recoveryNetwork[1][i].encryptedShare.share

\* Keyring.recoverKeyring(shares): "ok", or the error it fails with.
recoverKeyringResult(shares) ==
    IF \E i, j \in DOMAIN shares :
           shares[i].secret # shares[j].secret \/ shares[i].split # shares[j].split
    THEN "InvalidShareError"
    ELSE IF Cardinality({shares[i].idx : i \in DOMAIN shares}) < Threshold
    THEN "InsufficientSharesError"
    ELSE "ok"
recoverKeyring(shares) == NewKeyring(shares[1].secret)

(* ------------------------------------------------------------------ *)
(* Documents                                                            *)
(* ------------------------------------------------------------------ *)
\* Optional arguments are passed as <<>> (undefined) or <<v>>.
createMuportDocument(publicKeys, recoveryNetwork, publicProfile, symEncryptedData) ==
    LET doc0 == [version |-> DocVersion] @@ publicKeys
        doc1 == IF IsDefined(recoveryNetwork)
                THEN Put(doc0, "recoveryNetwork", recoveryNetwork[1]) ELSE doc0
        doc2 == IF IsDefined(publicProfile)
                THEN Put(doc1, "publicProfile", publicProfile[1]) ELSE doc1
        doc3 == IF IsDefined(symEncryptedData)
                THEN Put(doc2, "symEncryptedData", symEncryptedData[1]) ELSE doc2
    IN  doc3

\* The JSON text ipfs.addJSON sends for a document.
JSONDoc(doc) ==
    IF "symEncryptedData" \in DOMAIN doc
    THEN Put(doc, "symEncryptedData", JSONObject(doc.symEncryptedData))
    ELSE doc

(* ------------------------------------------------------------------ *)
(* Collaborators: content network, ledger, resolver                     *)
(* ------------------------------------------------------------------ *)
\* new IPFS(ipfsConf || IPFS_CONF)
initIpfs(ipfsConf) == IF ipfsConf = "undefined" THEN IPFS_CONF ELSE ipfsConf

\* The content address of a JSON text: its place in the content network.
HashOf(store, json) ==
    IF \E h \in DOMAIN store : store[h] = json
    THEN CHOOSE h \in DOMAIN store : store[h] = json
    ELSE Len(store) + 1
AddJSON(store, json) ==
    IF \E h \in DOMAIN store : store[h] = json THEN store ELSE Append(store, json)

\* The ledger's registry: the hash last anchored from `address`, if any.
AnchorsOf(chain, address) == {n \in DOMAIN chain : chain[n].params.from = address}
ledgerLookup(chain, address) ==
    IF AnchorsOf(chain, address) = {} THEN Undefined
    ELSE Some(chain[CHOOSE n \in AnchorsOf(chain, address) :
                        \A m \in AnchorsOf(chain, address) : m <= n].params.hash)

\* The DID document the resolver hands out for a published document.
wrapDocument(did, doc) ==
    LET data0 == [nym |-> doc.publicProfile.name]
        data1 == IF "symEncryptedData" \in DOMAIN doc
                 THEN Put(data0, "symEncryptedData", doc.symEncryptedData) ELSE data0
        data2 == IF "recoveryNetwork" \in DOMAIN doc
                 THEN Put(data1, "recoveryNetwork", doc.recoveryNetwork) ELSE data1
    IN  [id |-> did,
         publicKey |->
            << [id |-> <<did, "#signingKey">>, publicKeyHex |-> doc.signingKey],
               [id |-> <<did, "#managementKey">>, publicKeyHex |-> doc.managementKey],
               [id |-> <<did, "#encryptionKey">>, publicKeyBase64 |-> doc.asymEncryptionKey] >>,
         muportData |-> data2]

\* resolve(did): the document named in the identifier, or the one its
\* management key anchored last.
resolveOk(store, chain, did) == DidHash(did) \in DOMAIN store
resolve(store, chain, did) ==
    LET first == store[DidHash(did)]
        newHash == ledgerLookup(chain, AddressOfKey(first.managementKey))
    IN  wrapDocument(did, IF IsDefined(newHash) THEN store[newHash[1]] ELSE first)

\* o.f of a parsed JSON object, undefined when the property is missing.
Prop(o, f) == IF f \in DOMAIN o THEN Some(o[f]) ELSE Undefined
FindKey(didDoc, tag) == CHOOSE key \in Range(didDoc.publicKey) : key.id[2] = tag

\* The rebuilt document without the recovery network of the resolved one.
resolveIdentityDocumentNoNetwork(didDoc) ==
    createMuportDocument(
        [signingKey |-> FindKey(didDoc, "#signingKey").publicKeyHex,
         managementKey |-> FindKey(didDoc, "#managementKey").publicKeyHex,
         asymEncryptionKey |-> FindKey(didDoc, "#encryptionKey").publicKeyBase64],
        Undefined, Some([name |-> didDoc.muportData.nym]),
        Prop(didDoc.muportData, "symEncryptedData"))

\* MuPort.resolveIdentityDocument, from the resolved DID document on.
resolveIdentityDocument(didDoc) ==
    LET publicKeys ==
            [signingKey |-> FindKey(didDoc, "#signingKey").publicKeyHex,
             managementKey |-> FindKey(didDoc, "#managementKey").publicKeyHex,
             asymEncryptionKey |-> FindKey(didDoc, "#encryptionKey").publicKeyBase64]
        recoveryNetwork == Prop(didDoc.muportData, "recoveryNetwork")
        publicProfile == [name |-> didDoc.muportData.nym]
        symEncryptedData == Prop(didDoc.muportData, "symEncryptedData")
    IN  createMuportDocument(publicKeys, recoveryNetwork, Some(publicProfile), symEncryptedData)

(* ------------------------------------------------------------------ *)
(* Ledger helper (./ethereum-utils)                                     *)
(* ------------------------------------------------------------------ *)
createPublishTxParams(documentHash, address) == [from |-> address, hash |-> documentHash]
calculateTxCost(txParams) == <<"ether", txParams.hash>>
signManagementTx(keyring, txParams) == [params |-> txParams, signedBy |-> keyring.seed]

(* ------------------------------------------------------------------ *)
(* The delegate identities that exist before the run                    *)
(* ------------------------------------------------------------------ *)
Delegates == 1..NumDelegates
DelegateKeyring(i) == NewKeyring(i)
\* newIdentity('delegate') : no delegates of its own
DelegateDocument(i) ==
    createMuportDocument(getPublicKeys(DelegateKeyring(i)), Undefined,
                         Some([name |-> "delegate"]), Some([symEncDids |-> Undefined]))
DelegateDid(i) == MakeDid(i)
DelegateObj(i) == [did |-> DelegateDid(i), keyring |-> DelegateKeyring(i)]
\* an identifier nothing was ever published under
UnknownDid == MakeDid(0)

\* The delegate lists the callers pass.
FirstList == <<DelegateDid(1), DelegateDid(2), DelegateDid(3)>>
SecondList == <<DelegateDid(4), DelegateDid(5), DelegateDid(6)>>
ShortList == <<DelegateDid(1), DelegateDid(2)>>
LongList == <<DelegateDid(1), DelegateDid(2), DelegateDid(3), DelegateDid(4)>>
UnresolvableList == <<DelegateDid(1), UnknownDid, DelegateDid(3)>>
NewIdentityLists == {Undefined, Some(FirstList), Some(ShortList), Some(UnresolvableList)}
UpdateLists == {FirstList, SecondList, ShortList, LongList, UnresolvableList}

(* ------------------------------------------------------------------ *)
(* State                                                                *)
(* ------------------------------------------------------------------ *)
VARIABLES
    ipfs,       \* the module-wide transport handle: the node it talks to
    resolver,   \* the ipfsConf the muport resolver was registered with last
    cas,        \* the content network: content address -> JSON text
    adds,       \* every completed ipfs.addJSON: <<node, content address>>
    ledger,     \* the signed transactions that were broadcast, in order
    heap,       \* the document objects in memory: reference -> document
    objs,       \* the MuPort instances: did, document (a reference), documentHash, keyring
    calls,      \* newIdentity / updateDelegates calls in flight, and returned handles
    nCalls,     \* calls made so far
    nextKey,    \* the next fresh key material
    nextSplit,  \* the next fresh sharing polynomial
    last        \* the step taken last and how it ended

vars == <<ipfs, resolver, cas, adds, ledger, heap, objs, calls,
          nCalls, nextKey, nextSplit, last>>

NoKey == <<"none", 0>>
NoTx == [params |-> [from |-> <<"address", 0>>, hash |-> 0], signedBy |-> 0]
NoSnapshot == [doc |-> EmptyObject, hash |-> 0, adds |-> 0, cas |-> 0]
Snapshot(o) ==
    [doc |-> heap[objs[o].document], hash |-> objs[o].documentHash,
     adds |-> Len(adds), cas |-> Len(cas)]

\* What the last step was: an await inside a call, or the end of an operation.
Event(op, ok, error, call, obj, src, pre, out) ==
    [op |-> op, ok |-> ok, error |-> error, call |-> call, obj |-> obj,
     src |-> src, pre |-> pre, out |-> out]
Awaiting(call) == Event("await", TRUE, "", call, 0, 0, NoSnapshot, <<>>)
Failure(op, error, c) == Event(op, FALSE, error, c.id, c.obj, 0, c.pre, <<c.alone, c.dids>>)

NewCall(id, kind, obj, name, opts, keyring, delegateDids, pre, alone) ==
    [id |-> id, kind |-> kind, obj |-> obj, name |-> name, opts |-> opts,
     keyring |-> keyring, dids |-> delegateDids,
     pending |-> IF IsDefined(delegateDids) THEN DOMAIN delegateDids[1] ELSE {},
     keys |-> IF IsDefined(delegateDids)
              THEN [i \in DOMAIN delegateDids[1] |-> NoKey] ELSE <<>>,
     pc |-> "resolving", via |-> "", payload |-> EmptyObject, doc |-> EmptyObject,
     hash |-> 0, signedTx |-> NoTx, pre |-> pre, alone |-> alone]

InFlight(c) == c.pc \in {"resolving", "adding", "txparams"}
\* A call is alone when no other call is in flight between its start and its end.
Overlapped(cs) == {IF InFlight(c) THEN [c EXCEPT !.alone = FALSE] ELSE c : c \in cs}
NoneInFlight == \A c \in calls : ~InFlight(c)

Init ==
    /\ ipfs = initIpfs("undefined")
    /\ resolver = "undefined"
    /\ cas = [i \in Delegates |-> JSONDoc(DelegateDocument(i))]
    /\ adds = [i \in Delegates |-> <<initIpfs("undefined"), i>>]
    /\ ledger = <<>>
    /\ heap = <<>>
    /\ objs = <<>>
    /\ calls = {}
    /\ nCalls = 0
    /\ nextKey = NumDelegates + 1
    /\ nextSplit = 1
    /\ last = Event("init", TRUE, "", 0, 0, 0, NoSnapshot, <<>>)

(* ------------------------------------------------------------------ *)
(* constructor                                                          *)
(* ------------------------------------------------------------------ *)
\* A constructor that always takes the content address out of the did.
ConstructorHashFromDid(opts) ==
    [did |-> opts.did[1],
     document |-> opts.document[1],
     documentHash |-> DidHash(opts.did[1]),
     keyring |-> KeyringRestore(opts.keyring[1])]

\* opts: did, document, documentHash, keyring, each undefined or a value.
ConstructorOk(opts) ==
    IsDefined(opts.did) /\ IsDefined(opts.document) /\ IsDefined(opts.keyring)
Constructor(opts) ==
    [did |-> opts.did[1],
     document |-> opts.document[1],
     documentHash |-> IF IsDefined(opts.documentHash) THEN opts.documentHash[1]
                      ELSE DidHash(opts.did[1]),
     keyring |-> KeyringRestore(opts.keyring[1])]

\* An instance, with the opts.ipfsConf its constructor was called with
\* (line 19 hands it to initIpfs; the instance itself does not keep it).
Instance(opts, ipfsConf) == Constructor(opts) @@ [ipfsConf |-> ipfsConf]

\* The state a caller hands to the constructor with some properties left out.
Without(state, missing) ==
    [f \in DOMAIN state |-> IF f \in missing THEN Undefined ELSE state[f]]
MissingSets == {{}, {"did"}, {"document"}, {"keyring"},
                {"did", "document", "keyring", "documentHash"}}

\* A constructor that sets the transport up before it looks at its options.
IpfsAfterThrowInitFirst(ipfsConf) == initIpfs(ipfsConf)

\* The transport handle after the constructor threw (line 17 precedes line 19).
IpfsAfterThrow(ipfsConf) == ipfs

serializeState(o) ==
    [did |-> Some(objs[o].did),
     document |-> Some(objs[o].document),
     documentHash |-> Some(objs[o].documentHash),
     keyring |-> Some(KeyringSerialize(objs[o].keyring))]

(* ------------------------------------------------------------------ *)
(* newIdentity and updateDelegates, step by step                        *)
(* ------------------------------------------------------------------ *)
\* The document newIdentity builds (lines 111-116).
NewIdentityDocument(keyring, name, recoveryNetwork, delegateDids) ==
    LET symEncryptedDelegateDids ==
            IF IsDefined(delegateDids)
            THEN Some([i \in DOMAIN delegateDids[1] |->
                          symEncrypt(keyring, didToBuffer(delegateDids[1][i]), i)])
            ELSE Undefined
    IN  createMuportDocument(getPublicKeys(keyring), recoveryNetwork,
                             Some([name |-> name]),
                             Some([symEncDids |-> symEncryptedDelegateDids]))

\* newIdentity up to its first await.
NewIdentityStart(name, delegateDids, ipfsConf) ==
    /\ nCalls < MaxCalls
    /\ Len(objs) + Cardinality({c \in calls : c.kind = "newIdentity"}) < MaxObjs
    /\ LET keyring == NewKeyring(nextKey)
           c0 == NewCall(nCalls + 1, "newIdentity", 0, name, ipfsConf, keyring,
                         delegateDids, NoSnapshot, NoneInFlight)
           doc == NewIdentityDocument(keyring, name, Undefined, Undefined)
       IN  /\ ipfs' = initIpfs(ipfsConf)
           /\ nextKey' = nextKey + 1
           /\ nCalls' = nCalls + 1
           /\ IF IsDefined(delegateDids)
              THEN /\ resolver' = IF c0.pending # {} THEN ipfsConf ELSE resolver
                   /\ calls' = Overlapped(calls) \cup {c0}
              ELSE /\ resolver' = resolver
                   /\ calls' = Overlapped(calls) \cup
                        {[c0 EXCEPT !.pc = "adding", !.doc = doc,
                                    !.payload = JSONDoc(doc), !.via = initIpfs(ipfsConf)]}
           /\ last' = Awaiting(nCalls + 1)
           /\ UNCHANGED <<cas, adds, ledger, heap, objs, nextSplit>>

\* The check written as an upper limit only.
ValidDelegateCountAtMost(delegateDids) == Len(delegateDids) <= Amount

\* delegateDids.length !== 3 is what updateDelegates throws on (line 57).
ValidDelegateCount(delegateDids) == Len(delegateDids) = Amount

\* The update also counting the document's version up.
UpdatedDocumentBumped(doc, recoveryNetwork) ==
    Put(Put(doc, "recoveryNetwork", recoveryNetwork), "version", doc.version + 1)

\* The update also blanking the public profile.
UpdatedDocumentAnonymous(doc, recoveryNetwork) ==
    Put(Put(doc, "recoveryNetwork", recoveryNetwork), "publicProfile", [name |-> ""])

\* this.document.recoveryNetwork = recoveryNetwork (line 62)
UpdatedDocument(doc, recoveryNetwork) == Put(doc, "recoveryNetwork", recoveryNetwork)

\* updateDelegates up to its first await.
UpdateDelegatesStart(o, delegateDids) ==
    /\ nCalls < MaxCalls
    /\ o \in DOMAIN objs
    /\ nCalls' = nCalls + 1
    /\ LET c0 == NewCall(nCalls + 1, "updateDelegates", o, "", "undefined",
                         objs[o].keyring, Some(delegateDids), Snapshot(o), NoneInFlight)
       IN  IF ~ValidDelegateCount(delegateDids)
           THEN /\ last' = Failure("updateDelegates", "Must provide exactly 3 DIDs", c0)
                /\ UNCHANGED calls
           ELSE /\ last' = Awaiting(nCalls + 1)
                /\ calls' = Overlapped(calls) \cup {c0}
    /\ UNCHANGED <<ipfs, resolver, cas, adds, ledger, heap, objs, nextKey, nextSplit>>

\* One of the delegate resolutions of Promise.all comes back.
ResolveDone(c, i) ==
    /\ c \in calls /\ c.pc = "resolving" /\ i \in c.pending
    /\ IF resolveOk(cas, ledger, c.dids[1][i])
       THEN LET muportDoc == resolveIdentityDocument(resolve(cas, ledger, c.dids[1][i]))
            IN  /\ calls' = (calls \ {c}) \cup
                        {[c EXCEPT !.pending = @ \ {i},
                                   !.keys[i] = muportDoc.asymEncryptionKey]}
                /\ last' = Awaiting(c.id)
       ELSE /\ calls' = calls \ {c}
            /\ last' = Failure(c.kind, "NotFoundError", c)
    /\ UNCHANGED <<ipfs, resolver, cas, adds, ledger, heap, objs,
                   nCalls, nextKey, nextSplit>>

\* A Promise.all that lets go while one resolution is still out.
AllResolvedButOne(c) == Cardinality(c.pending) <= 1

\* await Promise.all(...): every resolution of the call has come back.
AllResolved(c) == c.pending = {}

\* All keys are there: createShares, then on to the ipfs.addJSONAsync call.
SharesDone(c) ==
    /\ c \in calls /\ c.pc = "resolving" /\ AllResolved(c)
    /\ IF ~createSharesOk(c.dids[1], c.keys)
       THEN /\ calls' = calls \ {c}
            /\ last' = Failure(c.kind, "ValidationError", c)
            /\ UNCHANGED <<heap, nextSplit>>
       ELSE LET recoveryNetwork == createShares(c.keyring, c.dids[1], c.keys, nextSplit)
                ref == objs[c.obj].document
                doc == IF c.kind = "updateDelegates"
                       THEN UpdatedDocument(heap[ref], recoveryNetwork)
                       ELSE NewIdentityDocument(c.keyring, c.name,
                                                Some(recoveryNetwork), c.dids)
            IN  /\ heap' = IF c.kind = "updateDelegates"
                           THEN [heap EXCEPT ![ref] = doc] ELSE heap
                /\ calls' = (calls \ {c}) \cup
                        {[c EXCEPT !.pc = "adding", !.doc = doc,
                                   !.payload = JSONDoc(doc), !.via = ipfs]}
                /\ nextSplit' = nextSplit + 1
                /\ last' = Awaiting(c.id)
    /\ UNCHANGED <<ipfs, resolver, cas, adds, ledger, objs, nCalls, nextKey>>

\* The did made of the document instead of its content address.
NewIdentityOptsDidOfDoc(doc, docHash, keyring) ==
    [did |-> Some(MakeDid(doc)),
     document |-> Some(doc),
     documentHash |-> Some(docHash),
     keyring |-> Some(KeyringSerialize(keyring))]

\* The options newIdentity hands to the constructor (lines 118-126).
NewIdentityOpts(doc, docHash, keyring) ==
    [did |-> Some(MakeDid(docHash)),
     document |-> Some(doc),
     documentHash |-> Some(docHash),
     keyring |-> Some(KeyringSerialize(keyring))]

\* The content store answers ipfs.addJSONAsync (or fails).
AddDone(c, ok) ==
    /\ c \in calls /\ c.pc = "adding"
    /\ IF ~ok
       THEN /\ calls' = calls \ {c}
            /\ last' = Failure(c.kind, "PublishError", c)
            /\ UNCHANGED <<ipfs, resolver, cas, adds, heap, objs>>
       ELSE LET docHash == HashOf(cas, c.payload)
            IN  /\ cas' = AddJSON(cas, c.payload)
                /\ adds' = Append(adds, <<c.via, docHash>>)
                /\ IF c.kind = "updateDelegates"
                   THEN /\ objs' = [objs EXCEPT ![c.obj].documentHash = docHash]
                        /\ calls' = (calls \ {c}) \cup
                                {[c EXCEPT !.pc = "txparams", !.hash = docHash]}
                        /\ last' = Awaiting(c.id)
                        /\ UNCHANGED <<ipfs, resolver, heap>>
                   ELSE /\ heap' = Append(heap, c.doc)
                        /\ objs' = Append(objs,
                                Instance(NewIdentityOpts(Len(heap) + 1, docHash, c.keyring),
                                         c.opts))
                        /\ ipfs' = initIpfs(c.opts)
                        /\ resolver' = c.opts
                        /\ calls' = calls \ {c}
                        /\ last' = Event("newIdentity", TRUE, "", c.id, Len(objs) + 1, 0,
                                         NoSnapshot, <<docHash, c.dids>>)
    /\ UNCHANGED <<ledger, nCalls, nextKey, nextSplit>>

\* What updateDelegates signs once createPublishTxParams is back (lines 65-68).
UpdateSignedTx(c) ==
    LET address == getManagementAddress(objs[c.obj].keyring)
        txParams == createPublishTxParams(c.hash, address)
    IN  signManagementTx(objs[c.obj].keyring, txParams)

\* updateDelegates sending the transaction itself.
LedgerOnReturnSubmits(c) == Append(ledger, UpdateSignedTx(c))

\* What happens to the ledger when updateDelegates returns.
LedgerOnReturn(c) == ledger

\* createPublishTxParams answers; cost and signature follow; the call returns.
\* `failing` names the step that throws, or is "none".
TxParamsDone(c, failing) ==
    /\ c \in calls /\ c.pc = "txparams"
    /\ IF failing # "none"
       THEN /\ calls' = calls \ {c}
            /\ last' = Failure(c.kind, failing, c)
            /\ UNCHANGED ledger
       ELSE LET signedTx == UpdateSignedTx(c)
                address == getManagementAddress(objs[c.obj].keyring)
                costInEther == calculateTxCost(signedTx.params)
            IN  /\ calls' = (calls \ {c}) \cup
                        {[c EXCEPT !.pc = "returned", !.signedTx = signedTx]}
                /\ ledger' = LedgerOnReturn(c)
                /\ last' = Event("updateDelegates", TRUE, "", c.id, c.obj, 0, c.pre,
                                 <<address, costInEther, c.alone, c.hash>>)
    /\ UNCHANGED <<ipfs, resolver, cas, adds, heap, objs, nCalls, nextKey, nextSplit>>

\* The transaction finishUpdate hands to sendRawTx (lines 73-75).
FinishUpdateTx(c) == c.signedTx

\* The caller invokes the returned finishUpdate.
FinishUpdate(c, ok) ==
    /\ c \in calls /\ c.pc = "returned"
    /\ IF ok
       THEN /\ ledger' = Append(ledger, FinishUpdateTx(c))
            /\ calls' = (calls \ {c}) \cup {[c EXCEPT !.pc = "finished"]}
            /\ last' = Event("finishUpdate", TRUE, "", c.id, c.obj, 0, c.pre, <<>>)
       ELSE /\ last' = Failure("finishUpdate", "BroadcastError", c)
            /\ UNCHANGED <<ledger, calls>>
    /\ UNCHANGED <<ipfs, resolver, cas, adds, heap, objs, nCalls, nextKey, nextSplit>>

(* ------------------------------------------------------------------ *)
(* restore, recoverIdentity, helpRecover                                *)
(* ------------------------------------------------------------------ *)
Room == Len(objs) + Cardinality({c \in calls : c.kind = "newIdentity"}) < MaxObjs

\* new MuPort({...state, ipfsConf}), state being o.serializeState() as it is
\* ("restore") or with some of its properties missing ("construct").
Restore(o, missing, ipfsConf) ==
    /\ o \in DOMAIN objs
    /\ LET state == Without(serializeState(o), missing)
           op == IF missing = {} THEN "restore" ELSE "construct"
       IN  IF ~ConstructorOk(state)
           THEN /\ ipfs' = IpfsAfterThrow(ipfsConf)
                /\ last' = Event(op, FALSE, "Data missing for restoring identity",
                                 0, 0, o, NoSnapshot, <<missing, ipfsConf>>)
                /\ UNCHANGED <<objs, resolver>>
           ELSE /\ Room
                /\ objs' = Append(objs, Instance(state, ipfsConf))
                /\ ipfs' = initIpfs(ipfsConf)
                /\ resolver' = ipfsConf
                /\ last' = Event(op, TRUE, "", 0, Len(objs) + 1, o, NoSnapshot,
                                 <<missing, ipfsConf>>)
    /\ UNCHANGED <<cas, adds, ledger, heap, calls, nCalls, nextKey, nextSplit>>

\* recoverIdentity handing over a keyring of its own making.
RecoverOptsFreshKeyring(did, doc, shares) ==
    [did |-> Some(did),
     document |-> Some(doc),
     documentHash |-> Undefined,
     keyring |-> Some(KeyringSerialize(NewKeyring(nextKey)))]

\* The options recoverIdentity hands to the constructor (lines 131-136).
RecoverOpts(did, doc, shares) ==
    [did |-> Some(did),
     document |-> Some(doc),
     documentHash |-> Undefined,
     keyring |-> Some(KeyringSerialize(recoverKeyring(shares)))]

RecoverIdentity(did, shares, ipfsConf) ==
    /\ Room
    /\ ipfs' = initIpfs(ipfsConf)
    /\ resolver' = ipfsConf
    /\ IF ~resolveOk(cas, ledger, did)
       THEN /\ last' = Event("recover", FALSE, "NotFoundError", 0, 0, 0, NoSnapshot,
                             <<did, Range(shares)>>)
            /\ UNCHANGED <<heap, objs>>
       ELSE IF recoverKeyringResult(shares) # "ok"
       THEN /\ last' = Event("recover", FALSE, recoverKeyringResult(shares), 0, 0, 0,
                             NoSnapshot, <<did, Range(shares)>>)
            /\ UNCHANGED <<heap, objs>>
       ELSE /\ heap' = Append(heap, resolveIdentityDocument(resolve(cas, ledger, did)))
            /\ objs' = Append(objs, Instance(RecoverOpts(did, Len(heap) + 1, shares),
                                             ipfsConf))
            /\ last' = Event("recover", TRUE, "", 0, Len(objs) + 1, 0, NoSnapshot,
                             <<did, Range(shares)>>)
    /\ UNCHANGED <<cas, adds, ledger, calls, nCalls, nextKey, nextSplit>>

\* What helper.helpRecover(did) comes to: "ok", or the error.
helpRecoverResult(helper, did) ==
    IF ~resolveOk(cas, ledger, did) THEN "NotFoundError"
    ELSE LET muportDoc == resolveIdentityDocument(resolve(cas, ledger, did))
         IN  IF decryptOneShareOk(helper.keyring, Prop(muportDoc, "recoveryNetwork"),
                                  helper.did)
             THEN "ok" ELSE "NotADelegateError"
helpRecover(helper, did) ==
    LET muportDoc == resolveIdentityDocument(resolve(cas, ledger, did))
    IN  decryptOneShare(helper.keyring, Prop(muportDoc, "recoveryNetwork"), helper.did)

HelpRecover(helper, did) ==
    /\ IF helpRecoverResult(helper, did) = "ok"
       THEN last' = Event("helpRecover", TRUE, "", 0, 0, 0, NoSnapshot,
                          <<helpRecover(helper, did)>>)
       ELSE last' = Event("helpRecover", FALSE, helpRecoverResult(helper, did), 0, 0, 0,
                          NoSnapshot, <<>>)
    /\ UNCHANGED <<ipfs, resolver, cas, adds, ledger, heap, objs, calls,
                   nCalls, nextKey, nextSplit>>

(* ------------------------------------------------------------------ *)
(* getRecoveryDelegateDids                                              *)
(* ------------------------------------------------------------------ *)
\* this.document.symEncryptedData.symEncDids, for a document that has the
\* property symEncryptedData
symEncDidsOf(doc) == Get(doc.symEncryptedData, "symEncDids")

\* "ok", or the error the function throws.
getRecoveryDelegateDidsResult(doc, keyring) ==
    IF "symEncryptedData" \notin DOMAIN doc THEN "TypeError"
    ELSE IF /\ IsDefined(symEncDidsOf(doc))
            /\ \E i \in DOMAIN symEncDidsOf(doc)[1] :
                   ~symDecryptOk(keyring, symEncDidsOf(doc)[1][i].ciphertext,
                                 symEncDidsOf(doc)[1][i].nonce)
         THEN "IntegrityError"
         ELSE "ok"
getRecoveryDelegateDids(doc, keyring) ==
    IF IsDefined(symEncDidsOf(doc))
    THEN [i \in DOMAIN symEncDidsOf(doc)[1] |->
             bufferToDid(symDecrypt(keyring, symEncDidsOf(doc)[1][i].ciphertext,
                                    symEncDidsOf(doc)[1][i].nonce))]
    ELSE <<>>

GetRecoveryDelegateDids(o) ==
    /\ o \in DOMAIN objs
    /\ LET doc == heap[objs[o].document]
           result == getRecoveryDelegateDidsResult(doc, objs[o].keyring)
       IN  IF result = "ok"
           THEN last' = Event("getRecoveryDelegateDids", TRUE, "", 0, o, 0, NoSnapshot,
                              <<getRecoveryDelegateDids(doc, objs[o].keyring)>>)
           ELSE last' = Event("getRecoveryDelegateDids", FALSE, result, 0, o, 0,
                              NoSnapshot, <<>>)
    /\ UNCHANGED <<ipfs, resolver, cas, adds, ledger, heap, objs, calls,
                   nCalls, nextKey, nextSplit>>

(* ------------------------------------------------------------------ *)
(* Specification                                                        *)
(* ------------------------------------------------------------------ *)
\* Who may call helpRecover: the delegates and the identities of the run.
Helpers == {DelegateObj(i) : i \in Delegates}
               \cup {[did |-> objs[o].did, keyring |-> objs[o].keyring] : o \in DOMAIN objs}
Targets == {objs[o].did : o \in DOMAIN objs} \cup {UnknownDid}
\* The plaintext shares the helpers hand over, and the lists a caller makes of them.
Obtainable ==
    {helpRecover(h, t) : <<h, t>> \in
        {ht \in Helpers \X Targets : helpRecoverResult(ht[1], ht[2]) = "ok"}}
ShareLists == UNION {[1..n -> Obtainable] : n \in 1..MaxShares}
FailingSteps == {"none", "createPublishTxParams", "calculateTxCost", "signManagementTx"}

\* The steps of a run whose callers pass an opts.ipfsConf out of `confs`.
NextOver(confs) ==
    \/ \E name \in Names, dl \in NewIdentityLists, conf \in confs :
           NewIdentityStart(name, dl, conf)
    \/ \E o \in DOMAIN objs, dl \in UpdateLists : UpdateDelegatesStart(o, dl)
    \/ \E c \in calls, i \in Delegates : ResolveDone(c, i)
    \/ \E c \in calls : SharesDone(c)
    \/ \E c \in calls, ok \in BOOLEAN : AddDone(c, ok)
    \/ \E c \in calls, failing \in FailingSteps : TxParamsDone(c, failing)
    \/ \E c \in calls, ok \in BOOLEAN : FinishUpdate(c, ok)
    \/ \E o \in DOMAIN objs, conf \in confs : Restore(o, {}, conf)
    \/ \E did \in Targets, shares \in ShareLists, conf \in confs :
           RecoverIdentity(did, shares, conf)
    \/ \E helper \in Helpers, did \in Targets : HelpRecover(helper, did)
    \/ \E o \in DOMAIN objs : GetRecoveryDelegateDids(o)

\* Callers that leave opts.ipfsConf out: every instance is on IPFS_CONF.
Next == NextOver({"undefined"})

Spec == Init /\ [][Next]_vars

(* ------------------------------------------------------------------ *)
(* Claims                                                               *)
(* ------------------------------------------------------------------ *)
\* The document an instance holds.
Held(o) == heap[objs[o].document]
\* The step just taken ended an updateDelegates call that ran alone.
UpdateEnded == last.op = "updateDelegates" /\ last.obj \in DOMAIN objs
UpdateFailed == UpdateEnded /\ ~last.ok /\ last.out[1]
UpdateReturned == UpdateEnded /\ last.ok

\* C1: an updateDelegates call that fails before it returns leaves the
\* identity as it was when the call began: the document it holds (its
\* recoveryNetwork included) and its document content address are the old
\* ones, and nothing new was published.
C1_FailedUpdateLeavesIdentity ==
    UpdateFailed =>
        /\ Held(last.obj) = last.pre.doc
        /\ objs[last.obj].documentHash = last.pre.hash
        /\ Len(adds) = last.pre.adds
        /\ Len(cas) = last.pre.cas

\* C3 as the spec states it: a successful updateDelegates republishes a
\* document whose version is strictly greater than the version held before.
C3_VersionIncrements ==
    UpdateReturned =>
        /\ Held(last.obj).version > last.pre.doc.version
        /\ cas[last.out[4]].version > last.pre.doc.version

\* C3 as amended: a successful updateDelegates republishes a document whose
\* version is the version held before the call, the scheme version 1; after
\* any number of updates every held document still carries that version.
C3_VersionPinned ==
    /\ UpdateReturned =>
        /\ Held(last.obj).version = last.pre.doc.version
        /\ cas[last.out[4]].version = last.pre.doc.version
        /\ "recoveryNetwork" \in DOMAIN cas[last.out[4]]
    /\ \A o \in DOMAIN objs : Held(o).version = DocVersion
C3_Witness ==
    /\ UpdateReturned
    /\ last.out[4] # last.pre.hash
    /\ cas[last.out[4]].version = DocVersion

\* C4: updateDelegates hands back a transaction signed for its own document
\* address from the management address and never broadcasts it: the ledger
\* holds exactly the transactions of the handles whose finishUpdate was
\* invoked, each the transaction that its updateDelegates call signed.
Finished == {c \in calls : c.pc = "finished"}
Handles == {c \in calls : c.pc \in {"returned", "finished"}}
C4_BroadcastOnlyByFinishUpdate ==
    /\ Len(ledger) = Cardinality(Finished)
    /\ \A n \in DOMAIN ledger : \E c \in Finished : ledger[n] = c.signedTx
    /\ \A c \in Handles :
        /\ c.signedTx.params.from = getManagementAddress(objs[c.obj].keyring)
        /\ c.signedTx.params.hash = c.hash
        /\ c.signedTx.signedBy = objs[c.obj].keyring.seed
    /\ UpdateReturned =>
        /\ last.out[1] = getManagementAddress(objs[last.obj].keyring)
        /\ last.out[2] = calculateTxCost(createPublishTxParams(last.out[4], last.out[1]))
    /\ (last.op = "finishUpdate" /\ last.ok) =>
        \E c \in Finished : c.id = last.call /\ ledger[Len(ledger)] = c.signedTx
C4_Witness ==
    /\ last.op = "finishUpdate" /\ last.ok
    /\ Len(ledger) = 1
    /\ ledger[1].params.hash = objs[last.obj].documentHash

\* C5: updateDelegates with a list that does not have exactly 3 entries
\* fails at once with the validation error: no call with such a list ever
\* gets to resolve, share, publish or sign, and the identity's document,
\* its content address, the content store and the ledger are as before.
WrongCount == {c \in calls : c.kind = "updateDelegates" /\ Len(c.dids[1]) # Amount}
C5_WrongCountRejectedFirst ==
    /\ WrongCount = {}
    /\ (UpdateEnded /\ ~last.ok /\ Len(last.out[2][1]) # Amount) =>
        /\ last.error = "Must provide exactly 3 DIDs"
        /\ Held(last.obj) = last.pre.doc
        /\ objs[last.obj].documentHash = last.pre.hash
        /\ Len(adds) = last.pre.adds
        /\ Len(cas) = last.pre.cas
        /\ \A c \in calls : c.id # last.call
C5_Witness ==
    /\ UpdateEnded /\ ~last.ok
    /\ last.error = "Must provide exactly 3 DIDs"
    /\ Len(last.out[2][1]) = Amount + 1
    /\ "recoveryNetwork" \in DOMAIN Held(last.obj)

\* The document published first under an identifier, and the key material
\* of the identity that published it.
FirstDoc(did) == cas[DidHash(did)]
OriginalKeyring(did) == NewKeyring(FirstDoc(did).managementKey[2])
RecoverEnded == last.op = "recover" /\ resolveOk(cas, ledger, last.out[1])
\* The shares handed to recover are plaintext shares of one network of the
\* identity being recovered.
OwnShares ==
    /\ last.out[2] # {}
    /\ \A s \in last.out[2] : s.secret = OriginalKeyring(last.out[1]).seed
    /\ \A s, t \in last.out[2] : s.split = t.split
SharingDelegates == {s.idx : s \in last.out[2]}

\* C2: recover of an identity with shares of its network from at least 2
\* distinct delegates (any order, duplicates or not) gives an instance with
\* that identifier and the original key material; with the share of 1
\* delegate it fails with InsufficientSharesError, no instance is made, and
\* recover can be called again.
C2_RecoverThreshold ==
    [][(RecoverEnded /\ OwnShares)' =>
          /\ (Cardinality(SharingDelegates) >= Threshold)' =>
                /\ Len(objs') = Len(objs) + 1
                /\ (/\ last.ok
                    /\ last.obj = Len(objs)
                    /\ objs[last.obj].did = last.out[1]
                    /\ objs[last.obj].keyring = OriginalKeyring(last.out[1])
                    /\ getPublicKeys(objs[last.obj].keyring).signingKey
                           = Held(last.obj).signingKey)'
          /\ (Cardinality(SharingDelegates) = 1)' =>
                /\ (~last.ok /\ last.error = "InsufficientSharesError")'
                /\ objs' = objs
                /\ heap' = heap
                /\ Room'
      ]_vars
C2_Witness ==
    /\ RecoverEnded /\ OwnShares /\ last.ok
    /\ SharingDelegates = {1, 3}
    /\ Len(objs) = 2
    /\ objs[2].keyring = objs[1].keyring
    /\ objs[2].document # objs[1].document

\* C6: every recoveryNetwork of a document that an instance holds or that
\* was published has exactly 3 entries.
NetworkOf(doc) == IF "recoveryNetwork" \in DOMAIN doc THEN doc.recoveryNetwork ELSE <<>>
C6_NetworkHasThreeEntries ==
    /\ \A r \in DOMAIN heap : Len(NetworkOf(heap[r])) \in {0, Amount}
    /\ \A h \in DOMAIN cas : Len(NetworkOf(cas[h])) \in {0, Amount}
    /\ \A c \in calls : c.pc # "resolving" => Len(NetworkOf(c.payload)) \in {0, Amount}
C6_Witness ==
    /\ last.op = "recover" /\ last.ok
    /\ Len(NetworkOf(Held(last.obj))) = Amount
    /\ Len(NetworkOf(FirstDoc(last.out[1]))) = 0
    /\ Len(ledger) = 1

\* The document an identifier resolves to now: the one anchored last by
\* its management key, or else the one it names.
CurrentDoc(did) ==
    LET anchored == ledgerLookup(ledger, AddressOfKey(FirstDoc(did).managementKey))
    IN  IF IsDefined(anchored) THEN cas[anchored[1]] ELSE FirstDoc(did)
AddressedTo(doc, did) ==
    {i \in DOMAIN NetworkOf(doc) : NetworkOf(doc)[i].delegateId = did}
DelegateDidsOf(doc) == [i \in DOMAIN NetworkOf(doc) |-> NetworkOf(doc)[i].delegateId]

\* C7: helpRecover by X for T returns a plaintext share exactly when the
\* recoveryNetwork of the document T resolves to now holds a share addressed
\* to X, and that share is the one returned; otherwise it fails with
\* NotADelegateError.
C7_HelpOnlyForCurrentDelegates ==
    /\ \A h \in Helpers, t \in Targets :
        resolveOk(cas, ledger, t) =>
            /\ (helpRecoverResult(h, t) = "ok") <=> (AddressedTo(CurrentDoc(t), h.did) # {})
            /\ helpRecoverResult(h, t) \in {"ok", "NotADelegateError"}
            /\ helpRecoverResult(h, t) = "ok" =>
                 \E i \in AddressedTo(CurrentDoc(t), h.did) :
                     /\ helpRecover(h, t) = NetworkOf(CurrentDoc(t))[i].encryptedShare.share
                     /\ helpRecover(h, t).secret = OriginalKeyring(t).seed
    /\ (last.op = "helpRecover" /\ last.ok) =>
           \E h \in Helpers, t \in Targets :
               /\ resolveOk(cas, ledger, t)
               /\ AddressedTo(CurrentDoc(t), h.did) # {}
               /\ last.out[1] = helpRecover(h, t)
    /\ (last.op = "helpRecover" /\ ~last.ok) =>
           last.error \in {"NotADelegateError", "NotFoundError"}
C7_Witness ==
    /\ last.op = "helpRecover" /\ last.ok
    /\ \E t \in Targets \ {UnknownDid} :
        /\ DelegateDidsOf(FirstDoc(t)) = FirstList
        /\ DelegateDidsOf(CurrentDoc(t)) = SecondList
        /\ \A i \in 1..3 : helpRecoverResult(DelegateObj(i), t) = "NotADelegateError"
        /\ \A i \in 4..6 : helpRecoverResult(DelegateObj(i), t) = "ok"
        /\ \E i \in 4..6 : last.out[1] = helpRecover(DelegateObj(i), t)

NewIdentityEnded == last.op = "newIdentity" /\ last.ok

\* C8: after a successful create the identifier is the scheme prefix
\* followed by the content address the store returned for the document
\* that create built, and documentHash is that address.
C8_DidIsPrefixPlusAddress ==
    NewIdentityEnded =>
        /\ objs[last.obj].did = <<"did", "muport", last.out[1]>>
        /\ objs[last.obj].documentHash = last.out[1]
        /\ cas[last.out[1]] = JSONDoc(Held(last.obj))
        /\ adds[Len(adds)][2] = last.out[1]
C8_Witness ==
    /\ NewIdentityEnded
    /\ Len(NetworkOf(Held(last.obj))) = Amount
    /\ last.out[1] > NumDelegates

\* C9: the document create builds and publishes when no delegates are given
\* has the fields version, the three public keys and publicProfile, and
\* neither recoveryNetwork nor symEncryptedData.
BareFields == {"version", "signingKey", "managementKey", "asymEncryptionKey", "publicProfile"}
C9_NoOptionalFieldsWithoutDelegates ==
    (NewIdentityEnded /\ ~IsDefined(last.out[2])) =>
        /\ DOMAIN cas[last.out[1]] = BareFields
        /\ DOMAIN Held(last.obj) = BareFields

\* C10: an instance constructed from serializeState() of another has its
\* identifier, its document, its document content address and its key
\* material.
C10_SerializedStateRoundTrips ==
    last.op = "restore" =>
        /\ last.ok
        /\ objs[last.obj].did = objs[last.src].did
        /\ Held(last.obj) = Held(last.src)
        /\ objs[last.obj].documentHash = objs[last.src].documentHash
        /\ objs[last.obj].keyring = objs[last.src].keyring
        /\ serializeState(last.obj) = serializeState(last.src)
C10_Witness ==
    /\ last.op = "restore"
    /\ objs[last.src].documentHash # DidHash(objs[last.src].did)
    /\ Len(NetworkOf(Held(last.obj))) = Amount

(* ------------------------------------------------------------------ *)
(* Callers that pass either store configuration                         *)
(* ------------------------------------------------------------------ *)
\* One caller creates identities without delegates, sets delegates once,
\* restores and recovers, each time with a store configuration of its choice.
PairLists == [1..Threshold -> Obtainable]
NextConfs ==
    \/ \E name \in Names, conf \in Confs : NewIdentityStart(name, Undefined, conf)
    \/ \E o \in DOMAIN objs : UpdateDelegatesStart(o, FirstList)
    \/ \E c \in calls, i \in Delegates : ResolveDone(c, i)
    \/ \E c \in calls : SharesDone(c)
    \/ \E c \in calls, ok \in BOOLEAN : AddDone(c, ok)
    \/ \E c \in calls : TxParamsDone(c, "none")
    \/ \E c \in calls : FinishUpdate(c, TRUE)
    \/ \E o \in DOMAIN objs, missing \in MissingSets, conf \in Confs :
           Restore(o, missing, conf)
    \/ \E did \in Targets, shares \in PairLists, conf \in Confs :
           RecoverIdentity(did, shares, conf)
SpecConfs == Init /\ [][NextConfs]_vars

Required == {"did", "document", "keyring"}
ConstructEnded == last.op \in {"restore", "construct"}

\* C11: constructing an instance from state without did, document or
\* keyring throws 'Data missing for restoring identity'; no instance is
\* made, and the transport handle, the resolver registration, the content
\* network and the ledger are as they were.  With the three present an
\* instance is made.
C11_MissingStateRejected ==
    [][ConstructEnded' =>
          IF last'.out[1] \cap Required # {}
          THEN /\ ~last'.ok
               /\ last'.error = "Data missing for restoring identity"
               /\ UNCHANGED <<objs, heap, ipfs, resolver, cas, adds, ledger, calls>>
          ELSE /\ last'.ok
               /\ Len(objs') = Len(objs) + 1
       ]_vars
C11_Witness ==
    /\ last.op = "construct" /\ ~last.ok
    /\ last.out[1] = {"keyring"}
    /\ last.out[2] = "local.node"
    /\ ipfs = IPFS_CONF
    /\ resolver = "undefined"
    /\ Len(objs) = 1

\* The encryption key a delegate identifier resolves to.
KeyOf(did) == resolveIdentityDocument(resolve(cas, ledger, did)).asymEncryptionKey
ResolutionFailed ==
    /\ last.op \in {"newIdentity", "updateDelegates"}
    /\ ~last.ok /\ last.error = "NotFoundError"

\* C12: the delegates' keys of a create or an updateDelegates call come in
\* in any order; the secret is split only when every one of them has come
\* in, with exactly those keys; and when a resolution fails the call ends
\* there: no shares are made, nothing is published, no document changes.
C12_SplitAfterAllResolved ==
    /\ [](\A c \in calls : c.pc # "resolving" =>
              /\ c.pending = {}
              /\ \A i \in DOMAIN c.keys : c.keys[i] = KeyOf(c.dids[1][i])
              /\ \A i \in DOMAIN c.keys :
                    NetworkOf(c.doc)[i].encryptedShare.to = c.keys[i])
    /\ [][(nextSplit' # nextSplit =>
               \E c \in calls :
                   /\ c.pc = "resolving" /\ c.pending = {}
                   /\ \A i \in DOMAIN c.keys : c.keys[i] # NoKey
                   /\ \E d \in calls' : d.id = c.id /\ d.pc = "adding")
           /\ ((ResolutionFailed' /\ last' # last) =>
               /\ UNCHANGED <<nextSplit, cas, adds, heap, objs, ledger>>
               /\ \A d \in calls' : d.id # last'.call
               /\ \E c \in calls : c.id = last'.call /\ c.pc = "resolving")
          ]_vars
C12_Witness ==
    \E c \in calls :
        /\ c.pc = "resolving" /\ c.kind = "updateDelegates"
        /\ c.pending = {1}
        /\ c.keys[2] = KeyOf(c.dids[1][2]) /\ c.keys[3] = KeyOf(c.dids[1][3])
        /\ nextSplit = 1

\* No call is in flight and the document the instance holds is the one it
\* was created with or the one a returned updateDelegates call left.
Settled(o) ==
    /\ NoneInFlight
    /\ \/ JSONDoc(Held(o)) = FirstDoc(objs[o].did)
       \/ \E c \in Handles : c.obj = o /\ c.doc = Held(o)
GotDelegateDids == last.op = "getRecoveryDelegateDids" /\ last.obj \in DOMAIN objs

\* C13: for an identity created with delegates and holding its own key
\* material, once every updateDelegates call has returned,
\* getRecoveryDelegateDids gives the delegate identifiers of the recovery
\* network in the document the identity holds, in order.
C13_DelegateListIsCurrent ==
    (/\ GotDelegateDids
     /\ Settled(last.obj)
     /\ objs[last.obj].keyring = OriginalKeyring(objs[last.obj].did)
     /\ Len(NetworkOf(FirstDoc(objs[last.obj].did))) = Amount) =>
        /\ last.ok
        /\ last.out[1] = DelegateDidsOf(Held(last.obj))

\* C14: whenever no call is in flight, the documentHash of every instance
\* is the content address of the document that instance holds.
C14_HashNamesHeldDocument ==
    NoneInFlight =>
        \A o \in DOMAIN objs :
            /\ objs[o].documentHash \in DOMAIN cas
            /\ cas[objs[o].documentHash] = JSONDoc(Held(o))

(* ------------------------------------------------------------------ *)
(* One identity, its updateDelegates calls overlapping                  *)
(* ------------------------------------------------------------------ *)
\* The state after `await MuPort.newIdentity('Alice')` and nothing else.
OwnerKeyring == NewKeyring(NumDelegates + 1)
OwnerDocument == NewIdentityDocument(OwnerKeyring, "Alice", Undefined, Undefined)
InitOwner ==
    /\ ipfs = initIpfs("undefined")
    /\ resolver = "undefined"
    /\ cas = [i \in 1..NumDelegates + 1 |->
                IF i \in Delegates THEN JSONDoc(DelegateDocument(i))
                ELSE JSONDoc(OwnerDocument)]
    /\ adds = [i \in 1..NumDelegates + 1 |-> <<initIpfs("undefined"), i>>]
    /\ ledger = <<>>
    /\ heap = <<OwnerDocument>>
    /\ objs = <<Instance(NewIdentityOpts(1, NumDelegates + 1, OwnerKeyring), "undefined")>>
    /\ calls = {}
    /\ nCalls = 0
    /\ nextKey = NumDelegates + 2
    /\ nextSplit = 1
    /\ last = Event("init", TRUE, "", 0, 0, 0, NoSnapshot, <<>>)

NextOverlap ==
    \/ \E dl \in {FirstList, SecondList} : UpdateDelegatesStart(1, dl)
    \/ \E c \in calls, i \in Delegates : ResolveDone(c, i)
    \/ \E c \in calls : SharesDone(c)
    \/ \E c \in calls, ok \in BOOLEAN : AddDone(c, ok)
    \/ \E c \in calls, failing \in FailingSteps : TxParamsDone(c, failing)
    \/ \E c \in calls, ok \in BOOLEAN : FinishUpdate(c, ok)

SpecOverlap == InitOwner /\ [][NextOverlap]_vars

\* The updateDelegates calls on o that have returned after overlapping.
OverlappedHandles(o) == {c \in Handles : c.obj = o /\ ~c.alone}

\* C15: once two overlapping updateDelegates calls on one instance have
\* both returned, its documentHash names a published document whose
\* recoveryNetwork is the one in the document it holds, and the transaction
\* each call signed anchors the document with the network that call made.
C15_OverlappingUpdatesConsistent ==
    \A o \in DOMAIN objs :
        (NoneInFlight /\ Cardinality(OverlappedHandles(o)) = 2) =>
            /\ objs[o].documentHash \in DOMAIN cas
            /\ NetworkOf(cas[objs[o].documentHash]) = NetworkOf(Held(o))
            /\ \A c \in OverlappedHandles(o) :
                   NetworkOf(cas[c.signedTx.params.hash]) = NetworkOf(c.doc)

(* ------------------------------------------------------------------ *)
(* An identity rebuilt from its published document                      *)
(* ------------------------------------------------------------------ *)
\* An identity without delegates that was published before the run.  Its
\* document is createMuportDocument's for no recoveryNetwork, either with
\* no symEncryptedData handed in (the if on line 173 leaves the property
\* out) or with the wrapper object newIdentity hands in, which the JSON
\* text carries as {}.
PublishedKeyring == NewKeyring(NumDelegates + 1)
PublishedDid == MakeDid(NumDelegates + 1)
PublishedDocuments ==
    {createMuportDocument(getPublicKeys(PublishedKeyring), Undefined,
                          Some([name |-> "Bob"]), symEncryptedData) :
        symEncryptedData \in {Undefined, Some(EmptyObject)}}

InitPublished ==
    /\ ipfs = initIpfs("undefined")
    /\ resolver = "undefined"
    /\ \E doc \in PublishedDocuments :
          cas = [i \in 1..NumDelegates + 1 |->
                    IF i \in Delegates THEN JSONDoc(DelegateDocument(i)) ELSE doc]
    /\ adds = [i \in 1..NumDelegates + 1 |-> <<initIpfs("undefined"), i>>]
    /\ ledger = <<>>
    /\ heap = <<>>
    /\ objs = <<>>
    /\ calls = {}
    /\ nCalls = 0
    /\ nextKey = NumDelegates + 2
    /\ nextSplit = 1
    /\ last = Event("init", TRUE, "", 0, 0, 0, NoSnapshot, <<>>)

\* new MuPort({did, document: await MuPort.resolveIdentityDocument(did, opts),
\*             keyring, ...opts}) by the owner, who kept did and keyring.
ConstructResolved(did, keyring, ipfsConf) ==
    /\ Room
    /\ resolveOk(cas, ledger, did)
    /\ heap' = Append(heap, resolveIdentityDocument(resolve(cas, ledger, did)))
    /\ objs' = Append(objs,
                 Instance([did |-> Some(did), document |-> Some(Len(heap) + 1),
                           documentHash |-> Undefined,
                           keyring |-> Some(KeyringSerialize(keyring))], ipfsConf))
    /\ ipfs' = initIpfs(ipfsConf)
    /\ resolver' = ipfsConf
    /\ last' = Event("construct", TRUE, "", 0, Len(objs) + 1, 0, NoSnapshot,
                     <<{"documentHash"}, ipfsConf>>)
    /\ UNCHANGED <<cas, adds, ledger, calls, nCalls, nextKey, nextSplit>>

NextPublished ==
    \/ \E conf \in Confs : ConstructResolved(PublishedDid, PublishedKeyring, conf)
    \/ \E o \in DOMAIN objs, missing \in MissingSets, conf \in Confs :
           Restore(o, missing, conf)
    \/ \E o \in DOMAIN objs : GetRecoveryDelegateDids(o)
    \/ \E helper \in Helpers, did \in {PublishedDid} : HelpRecover(helper, did)

SpecPublished == InitPublished /\ [][NextPublished]_vars

\* The document names no delegates: no recovery network and no encrypted
\* delegate identifiers.
NoDelegates(doc) ==
    /\ "recoveryNetwork" \notin DOMAIN doc
    /\ "symEncryptedData" \in DOMAIN doc => ~IsDefined(symEncDidsOf(doc))

\* C16: getRecoveryDelegateDids of an instance whose document names no
\* delegates returns the empty list and does not throw, however the
\* instance was made.
C16_NoDelegatesGivesEmptyList ==
    (GotDelegateDids /\ NoDelegates(Held(last.obj))) =>
        /\ last.ok
        /\ last.out[1] = <<>>

\* The updateDelegates calls that have handed their document to a store.
Published == {c \in calls : c.kind = "updateDelegates" /\ c.pc # "resolving"}

\* C17: updateDelegates of an instance publishes through the store that
\* instance was constructed with, whatever other instances were made since.
C17_PublishesToOwnStore ==
    /\ \A c \in Published : c.via = initIpfs(objs[c.obj].ipfsConf)
    /\ (last.op = "await" /\ \E c \in Published : c.id = last.call /\ c.pc = "txparams") =>
           \E c \in Published :
               /\ c.id = last.call
               /\ adds[Len(adds)] = <<initIpfs(objs[c.obj].ipfsConf), c.hash>>

\* A document without its recovery network.
Frame(doc) == [f \in (DOMAIN doc) \ {"recoveryNetwork"} |-> doc[f]]
UpdateDone == last.op \in {"updateDelegates", "finishUpdate"} /\ last.ok

\* C18: updateDelegates and finishUpdate change nothing of an identity but
\* the recoveryNetwork of its document and its documentHash: when they have
\* succeeded the document's public keys, public profile and every other
\* property are those it had when the call began, and no step of them
\* changes the identifier or the key material of any instance.
C18_UpdateChangesOnlyNetworkAndHash ==
    /\ [](UpdateDone =>
              /\ Frame(Held(last.obj)) = Frame(last.pre.doc)
              /\ Held(last.obj).signingKey = last.pre.doc.signingKey
              /\ Held(last.obj).managementKey = last.pre.doc.managementKey
              /\ Held(last.obj).asymEncryptionKey = last.pre.doc.asymEncryptionKey
              /\ Held(last.obj).publicProfile = last.pre.doc.publicProfile)
    /\ [][\A o \in DOMAIN objs :
              /\ objs'[o].did = objs[o].did
              /\ objs'[o].keyring = objs[o].keyring
              /\ objs'[o].document = objs[o].document
              /\ Frame(heap'[objs[o].document]) = Frame(heap[objs[o].document])
          ]_vars
C18_Witness ==
    /\ last.op = "finishUpdate" /\ last.ok
    /\ Len(NetworkOf(last.pre.doc)) = Amount
    /\ NetworkOf(Held(last.obj)) # NetworkOf(last.pre.doc)
    /\ objs[last.obj].documentHash # last.pre.hash
    /\ objs[last.obj].did = MakeDid(last.pre.hash)

====
